---- MODULE Spec2Model ----
(***************************************************************************)
(* Model of src/sharedMethods/summaryHandler.js: one run of handleSummary, *)
(* the monthly-summary write pipeline.  Every `await` of the source is two *)
(* steps, the invocation of the awaited operation and its settlement       *)
(* (resolve or reject); the helpers' try/catch blocks are the *Catch       *)
(* definitions.  The operations imported from other files are collaborators*)
(* whose results are chosen from the small sets below.                     *)
(***************************************************************************)
EXTENDS Integers, Sequences, FiniteSets, TLC

VARIABLES
    pc,                   \* the operation handleSummary invokes next / awaits
    inFlight,             \* the operations invoked and not yet settled
    trace,                \* the calls and settlements so far, in order
    errorLog,             \* the console.error messages so far, in order
    outcome,              \* "running", "returned" or "raised": handleSummary's promise
    thrown,               \* the message of the error handleSummary raised, or "none"
    headerIndicators,     \* HEADER_INDICATORS of constants.js
    existingSheetTitles,  \* handleSummary's local (line 215)
    lastMonthSheetTitles, \* handleSummary's local (line 217)
    summaryPageTitle,     \* handleSummary's local (line 219)
    fullSummaryPayload,   \* handleSummary's local (line 221)
    numberOfColumnsNeeded,\* addColumnsAndRows' local (line 69)
    numberOfRowsNeeded,   \* addColumnsAndRows' local (line 72)
    destinationTabId      \* addColumnsAndRows' local (line 76)

vars == <<pc, inFlight, trace, errorLog, outcome, thrown, headerIndicators,
          existingSheetTitles, lastMonthSheetTitles, summaryPageTitle,
          fullSummaryPayload, numberOfColumnsNeeded, numberOfRowsNeeded,
          destinationTabId>>

locals == <<existingSheetTitles, lastMonthSheetTitles, summaryPageTitle,
            fullSummaryPayload, numberOfColumnsNeeded, numberOfRowsNeeded,
            destinationTabId>>

(***************************************************************************)
(* Bounds of the model.                                                    *)
(***************************************************************************)
MaxTitles == 2
MaxIndicators == 2
MaxBodyLen == 3
MaxRowIndex == 2

(***************************************************************************)
(* The collaborators' value spaces.                                        *)
(***************************************************************************)
\* the tabs the spreadsheet may hold, in sheet order; the first two are last
\* month's
TabOrder == <<"Jan-1", "Jan-2", "Feb-1">>

TabTitles == {TabOrder[i] : i \in DOMAIN TabOrder}

PriorPeriodTitles == {"Jan-1", "Jan-2"}

\* createSummaryTitle() depends on the date of the run
SummaryTitles == {"Summary Jan", "Summary Feb"}

TabIds == {101, 102}

\* a value not yet assigned
None == "none"

\* the tab id before the lookup has resolved: no tab's id
NoTabId == 0

\* Sequences over S of length at most n
RECURSIVE SeqsUpTo(_, _)
SeqsUpTo(S, n) ==
    IF n = 0 THEN {<<>>}
    ELSE LET shorter == SeqsUpTo(S, n - 1)
         IN  shorter \cup {Append(s, x) : s \in shorter, x \in S}

\* what getExistingTabTitlesInRange may resolve to: at most MaxTitles of the
\* tabs, in sheet order
ExistingTitleLists ==
    {SelectSeq(TabOrder, LAMBDA t : t \in S) :
        S \in {T \in SUBSET TabTitles : Cardinality(T) <= MaxTitles}}

\* what HEADER_INDICATORS may be: a list of 0..MaxIndicators categories
IndicatorLists == {[i \in 1..n |-> i] : n \in 0..MaxIndicators}

\* getLastMonthTabTitles: the existing titles of the prior period, in order
getLastMonthTabTitles(titles) ==
    SelectSeq(titles, LAMBDA t : t \in PriorPeriodTitles)

\* one copy-paste instruction of the body payload
CopyPaste(endRow) == [copyPaste |-> [destination |-> [endRowIndex |-> endRow]]]

\* the body payloads constructPayloadForCopyPaste may build
BodyPayloads ==
    {[i \in DOMAIN rows |-> CopyPaste(rows[i])] :
        rows \in SeqsUpTo(0..MaxRowIndex, MaxBodyLen)}

\* constructPayloadForCopyPaste(lastMonthSheetTitles, summaryPageTitle)
constructPayloadForCopyPaste(titles, title, body) ==
    [headerPayload             |-> [part |-> "header", tab |-> title, from |-> titles],
     bodyPayload               |-> body,
     summaryGridStyles         |-> [part |-> "grid", tab |-> title],
     summaryHeaderStylePayload |-> [part |-> "headerStyle", tab |-> title]]

(***************************************************************************)
(* The failure each collaborator may settle with (its interface).          *)
(***************************************************************************)
CollaboratorError(op) ==
    CASE op = "createNewTab"             -> "TabCreationError"
      [] op = "getTabIdFromTitle"        -> "TabNotFoundError"
      [] op = "addColumnsAndRowsToTabId" -> "ResizeError"
      [] op = "sendSummaryHeaders"       -> "WriteError"
      [] op = "sendSummaryBody"          -> "WriteError"
      [] op = "summaryHeaderStyling"     -> "WriteError"
      [] OTHER                           -> None

\* the ways a call of op may settle
Settlements(op) ==
    IF CollaboratorError(op) = None THEN {"ok"} ELSE {"ok", "fail"}

(***************************************************************************)
(* The pure parts of addColumnsAndRows (lines 69-74).                      *)
(***************************************************************************)
\* JavaScript's -Infinity: below every number the model holds
NegInfinity == 0 - (MaxRowIndex + 2)

\* Math.max(...xs): the largest argument, -Infinity when there is none
RECURSIVE MathMaxFrom(_, _)
MathMaxFrom(acc, xs) ==
    IF xs = <<>> THEN acc
    ELSE MathMaxFrom(IF Head(xs) > acc THEN Head(xs) ELSE acc, Tail(xs))

MathMax(xs) == MathMaxFrom(NegInfinity, xs)

\* payload.map((item) => item.copyPaste.destination.endRowIndex)
EndRowIndexes(payload) ==
    [i \in DOMAIN payload |-> payload[i].copyPaste.destination.endRowIndex]

\* the sum instead of the product
ColumnsNeeded_Sum(titles, indicators) == Len(titles) + Len(indicators)

\* lines 69-70
ColumnsNeeded(titles, indicators) == Len(titles) * Len(indicators)

\* the last entry's endRowIndex instead of the maximum
RowsNeeded_LastEntry(payload) ==
    IF payload = <<>> THEN NegInfinity
    ELSE EndRowIndexes(payload)[Len(payload)]

\* lines 72-74
RowsNeeded(payload) == MathMax(EndRowIndexes(payload))

(***************************************************************************)
(* The catch blocks: what is logged, and the message thrown (None when the *)
(* error is swallowed).                                                    *)
(***************************************************************************)
\* line 84
ProvisioningError == "Unable to add columns and rows to the sheet."

\* the catch block swallows a failed tab lookup
addColumnsAndRowsCatch_SwallowLookup(error) ==
    [log    |-> <<"Error in adding columns and rows:">>,
     throws |-> IF error = "TabNotFoundError" THEN None ELSE ProvisioningError]

\* the catch block swallows a failed resize
addColumnsAndRowsCatch_SwallowResize(error) ==
    [log    |-> <<"Error in adding columns and rows:">>,
     throws |-> IF error = "ResizeError" THEN None ELSE ProvisioningError]

\* the catch block rethrows the error it caught
addColumnsAndRowsCatch_RethrowOriginal(error) ==
    [log |-> <<"Error in adding columns and rows:">>, throws |-> error]

\* lines 82-85
addColumnsAndRowsCatch(error) ==
    [log |-> <<"Error in adding columns and rows:">>, throws |-> ProvisioningError]

\* the catch block rethrows
sendSummaryHeadersCatch_Rethrow(error) ==
    [log |-> <<"An error occurred:">>, throws |-> error]

\* the catch block logs nothing
sendSummaryHeadersCatch_NoLog(error) ==
    [log |-> <<>>, throws |-> None]

\* lines 123-125
sendSummaryHeadersCatch(error) ==
    [log |-> <<"An error occurred:">>, throws |-> None]

\* the catch block rethrows
sendSummaryBodyCatch_Rethrow(error) ==
    [log |-> <<"Error writing to project:">>, throws |-> error]

\* lines 41-43
sendSummaryBodyCatch(error) ==
    [log |-> <<"Error writing to project:">>, throws |-> None]

\* the catch block rethrows
summaryHeaderStylingCatch_Rethrow(error) ==
    [log |-> <<"An error occurred:">>, throws |-> error]

\* lines 209-211
summaryHeaderStylingCatch(error) ==
    [log |-> <<"An error occurred:">>, throws |-> None]

(***************************************************************************)
(* handleSummary's statements, in order (lines 215-236; the call of        *)
(* sendSummaryGrid on line 235 is commented out).                          *)
(***************************************************************************)
\* the body is sent before the headers
HandleSummarySteps_BodyFirst ==
    <<"getExistingTabTitlesInRange", "getLastMonthTabTitles", "createNewTab",
      "constructPayloadForCopyPaste", "addColumnsAndRows",
      "sendSummaryBody", "sendSummaryHeaders", "summaryHeaderStyling">>

\* the payload is built before the destination tab is created
HandleSummarySteps_BuildBeforeCreate ==
    <<"getExistingTabTitlesInRange", "getLastMonthTabTitles",
      "constructPayloadForCopyPaste", "createNewTab", "addColumnsAndRows",
      "sendSummaryHeaders", "sendSummaryBody", "summaryHeaderStyling">>

\* lines 215-236
HandleSummarySteps ==
    <<"getExistingTabTitlesInRange", "getLastMonthTabTitles", "createNewTab",
      "constructPayloadForCopyPaste", "addColumnsAndRows",
      "sendSummaryHeaders", "sendSummaryBody", "summaryHeaderStyling">>

\* the statement after step, "done" after the last one
After(step) ==
    LET i == CHOOSE k \in DOMAIN HandleSummarySteps : HandleSummarySteps[k] = step
    IN  IF i = Len(HandleSummarySteps) THEN "done" ELSE HandleSummarySteps[i + 1]

\* the operation is awaited without having been started
Invoke_NotStarted(op, arg) == UNCHANGED <<inFlight, trace>>

\* op is invoked with arg
Invoke(op, arg) ==
    /\ inFlight' = inFlight \cup {op}
    /\ trace' = Append(trace, [op |-> op, ev |-> "call", arg |-> arg])

\* the call of op settles: how is "ok" (res is the value it resolved with) or
\* "fail" (res is the error it rejected with)
Settle(op, how, res) ==
    /\ inFlight' = inFlight \ {op}
    /\ trace' = Append(trace, IF how = "ok"
                              THEN [op |-> op, ev |-> how, arg |-> res]
                              ELSE [op |-> op, ev |-> how, error |-> res])

\* handleSummary goes on after step; its promise resolves after the last one
Continue(step) ==
    /\ pc' = After(step)
    /\ outcome' = IF After(step) = "done" THEN "returned" ELSE outcome
    /\ thrown' = thrown

\* handleSummary's promise rejects with message
Raise(message) ==
    /\ pc' = "done"
    /\ outcome' = "raised"
    /\ thrown' = message

\* a swallowed failure makes the step run again
Caught_Retry(step, catch) ==
    /\ errorLog' = errorLog \o catch.log
    /\ IF catch.throws = None
       THEN pc' = step /\ UNCHANGED <<outcome, thrown>>
       ELSE Raise(catch.throws)

\* a helper's catch block runs on error
Caught(step, catch) ==
    /\ errorLog' = errorLog \o catch.log
    /\ IF catch.throws = None THEN Continue(step) ELSE Raise(catch.throws)

Init ==
    /\ pc = HandleSummarySteps[1]
    /\ inFlight = {}
    /\ trace = <<>>
    /\ errorLog = <<>>
    /\ outcome = "running"
    /\ thrown = None
    /\ headerIndicators \in IndicatorLists
    /\ existingSheetTitles = None
    /\ lastMonthSheetTitles = None
    /\ summaryPageTitle = None
    /\ fullSummaryPayload = None
    /\ numberOfColumnsNeeded = None
    /\ numberOfRowsNeeded = None
    /\ destinationTabId = NoTabId

\* the statement does not wait for the call in flight
Ready_NotAwaiting(op) == pc = op /\ outcome = "running"

\* a statement of handleSummary that is not inside a try block: line 215-224
\* (a rejection of the awaited call rejects handleSummary with the same error)
Ready(op) == pc = op /\ inFlight = {} /\ outcome = "running"

Awaited(op) == pc = op /\ op \in inFlight /\ outcome = "running"

\* line 215, the call
CallGetExistingTabTitlesInRange ==
    /\ Ready("getExistingTabTitlesInRange")
    /\ Invoke("getExistingTabTitlesInRange", <<>>)
    /\ UNCHANGED <<pc, errorLog, outcome, thrown, headerIndicators, locals>>

\* line 215, the await
SettleGetExistingTabTitlesInRange ==
    /\ Awaited("getExistingTabTitlesInRange")
    /\ \E titles \in ExistingTitleLists :
        /\ Settle("getExistingTabTitlesInRange", "ok", titles)
        /\ existingSheetTitles' = titles
    /\ Continue("getExistingTabTitlesInRange")
    /\ UNCHANGED <<errorLog, headerIndicators, lastMonthSheetTitles,
                   summaryPageTitle, fullSummaryPayload, numberOfColumnsNeeded,
                   numberOfRowsNeeded, destinationTabId>>

\* line 217, the call
CallGetLastMonthTabTitles ==
    /\ Ready("getLastMonthTabTitles")
    /\ Invoke("getLastMonthTabTitles", existingSheetTitles)
    /\ UNCHANGED <<pc, errorLog, outcome, thrown, headerIndicators, locals>>

\* line 217, the await
SettleGetLastMonthTabTitles ==
    /\ Awaited("getLastMonthTabTitles")
    /\ Settle("getLastMonthTabTitles", "ok", getLastMonthTabTitles(existingSheetTitles))
    /\ lastMonthSheetTitles' = getLastMonthTabTitles(existingSheetTitles)
    /\ Continue("getLastMonthTabTitles")
    /\ UNCHANGED <<errorLog, headerIndicators, existingSheetTitles,
                   summaryPageTitle, fullSummaryPayload, numberOfColumnsNeeded,
                   numberOfRowsNeeded, destinationTabId>>

\* createSummaryTitle() is evaluated again for the argument of createNewTab
CallCreateNewTab_SecondTitle ==
    /\ Ready("createNewTab")
    /\ \E title \in SummaryTitles, other \in SummaryTitles :
        /\ summaryPageTitle' = title
        /\ Invoke("createNewTab", other)
    /\ UNCHANGED <<pc, errorLog, outcome, thrown, headerIndicators,
                   existingSheetTitles, lastMonthSheetTitles, fullSummaryPayload,
                   numberOfColumnsNeeded, numberOfRowsNeeded, destinationTabId>>

\* lines 219-220: createSummaryTitle(), then the call of createNewTab
CallCreateNewTab ==
    /\ Ready("createNewTab")
    /\ \E title \in SummaryTitles :
        /\ summaryPageTitle' = title
        /\ Invoke("createNewTab", title)
    /\ UNCHANGED <<pc, errorLog, outcome, thrown, headerIndicators,
                   existingSheetTitles, lastMonthSheetTitles, fullSummaryPayload,
                   numberOfColumnsNeeded, numberOfRowsNeeded, destinationTabId>>

\* the rejection of createNewTab is swallowed
SettleCreateNewTab_Swallow ==
    /\ Awaited("createNewTab")
    /\ \E how \in Settlements("createNewTab") :
        /\ Settle("createNewTab", how,
                  IF how = "ok" THEN summaryPageTitle
                  ELSE CollaboratorError("createNewTab"))
        /\ Continue("createNewTab")
    /\ UNCHANGED <<errorLog, headerIndicators, locals>>

\* line 220, the await
SettleCreateNewTab ==
    /\ Awaited("createNewTab")
    /\ \E how \in Settlements("createNewTab") :
        IF how = "ok"
        THEN /\ Settle("createNewTab", "ok", summaryPageTitle)
             /\ Continue("createNewTab")
        ELSE /\ Settle("createNewTab", "fail", CollaboratorError("createNewTab"))
             /\ Raise(CollaboratorError("createNewTab"))
    /\ UNCHANGED <<errorLog, headerIndicators, locals>>

\* lines 221-224, the call
CallConstructPayloadForCopyPaste ==
    /\ Ready("constructPayloadForCopyPaste")
    /\ Invoke("constructPayloadForCopyPaste",
              [titles |-> lastMonthSheetTitles, title |-> summaryPageTitle])
    /\ UNCHANGED <<pc, errorLog, outcome, thrown, headerIndicators, locals>>

\* lines 221-224, the await
SettleConstructPayloadForCopyPaste ==
    /\ Awaited("constructPayloadForCopyPaste")
    /\ \E body \in BodyPayloads :
        LET payload == constructPayloadForCopyPaste(lastMonthSheetTitles,
                                                    summaryPageTitle, body)
        IN  /\ Settle("constructPayloadForCopyPaste", "ok", payload)
            /\ fullSummaryPayload' = payload
    /\ Continue("constructPayloadForCopyPaste")
    /\ UNCHANGED <<errorLog, headerIndicators, existingSheetTitles,
                   lastMonthSheetTitles, summaryPageTitle, numberOfColumnsNeeded,
                   numberOfRowsNeeded, destinationTabId>>

\* the dimension computation reverses the body payload in place
CallGetTabIdFromTitle_ReversesPayload ==
    /\ Ready("addColumnsAndRows")
    /\ numberOfColumnsNeeded' = ColumnsNeeded(lastMonthSheetTitles, headerIndicators)
    /\ numberOfRowsNeeded' = RowsNeeded(fullSummaryPayload.bodyPayload)
    /\ fullSummaryPayload' =
          [fullSummaryPayload EXCEPT !.bodyPayload =
              [i \in DOMAIN @ |-> @[Len(@) + 1 - i]]]
    /\ Invoke("getTabIdFromTitle", summaryPageTitle)
    /\ pc' = "getTabIdFromTitle"
    /\ UNCHANGED <<errorLog, outcome, thrown, headerIndicators,
                   existingSheetTitles, lastMonthSheetTitles, summaryPageTitle,
                   destinationTabId>>

\* lines 226-232 and 68-76: addColumnsAndRows is entered, the dimensions are
\* computed and getTabIdFromTitle is called
CallGetTabIdFromTitle ==
    /\ Ready("addColumnsAndRows")
    /\ numberOfColumnsNeeded' = ColumnsNeeded(lastMonthSheetTitles, headerIndicators)
    /\ numberOfRowsNeeded' = RowsNeeded(fullSummaryPayload.bodyPayload)
    /\ Invoke("getTabIdFromTitle", summaryPageTitle)
    /\ pc' = "getTabIdFromTitle"
    /\ UNCHANGED <<errorLog, outcome, thrown, headerIndicators,
                   existingSheetTitles, lastMonthSheetTitles, summaryPageTitle,
                   fullSummaryPayload, destinationTabId>>

\* line 76, the await; lines 82-85 when it rejects
SettleGetTabIdFromTitle ==
    /\ Awaited("getTabIdFromTitle")
    /\ \E how \in Settlements("getTabIdFromTitle") :
        IF how = "ok"
        THEN \E id \in TabIds :
                /\ Settle("getTabIdFromTitle", "ok", id)
                /\ destinationTabId' = id
                /\ pc' = "addColumnsAndRowsToTabId"
                /\ UNCHANGED <<errorLog, outcome, thrown>>
        ELSE /\ Settle("getTabIdFromTitle", "fail",
                       CollaboratorError("getTabIdFromTitle"))
             /\ Caught("addColumnsAndRows",
                       addColumnsAndRowsCatch(CollaboratorError("getTabIdFromTitle")))
             /\ UNCHANGED destinationTabId
    /\ UNCHANGED <<headerIndicators, existingSheetTitles, lastMonthSheetTitles,
                   summaryPageTitle, fullSummaryPayload, numberOfColumnsNeeded,
                   numberOfRowsNeeded>>

\* the resize is skipped when no column is needed
CallAddColumnsAndRowsToTabId_SkipWhenNoColumns ==
    /\ Ready("addColumnsAndRowsToTabId")
    /\ IF numberOfColumnsNeeded = 0
       THEN /\ Continue("addColumnsAndRows")
            /\ UNCHANGED <<inFlight, trace>>
       ELSE /\ Invoke("addColumnsAndRowsToTabId",
                      [tabId   |-> destinationTabId,
                       columns |-> numberOfColumnsNeeded,
                       rows    |-> numberOfRowsNeeded])
            /\ UNCHANGED <<pc, outcome, thrown>>
    /\ UNCHANGED <<errorLog, headerIndicators, locals>>

\* lines 77-81, the call
CallAddColumnsAndRowsToTabId ==
    /\ Ready("addColumnsAndRowsToTabId")
    /\ Invoke("addColumnsAndRowsToTabId",
              [tabId   |-> destinationTabId,
               columns |-> numberOfColumnsNeeded,
               rows    |-> numberOfRowsNeeded])
    /\ UNCHANGED <<pc, errorLog, outcome, thrown, headerIndicators, locals>>

\* lines 77-81, the await; lines 82-85 when it rejects
SettleAddColumnsAndRowsToTabId ==
    /\ Awaited("addColumnsAndRowsToTabId")
    /\ \E how \in Settlements("addColumnsAndRowsToTabId") :
        IF how = "ok"
        THEN /\ Settle("addColumnsAndRowsToTabId", "ok", destinationTabId)
             /\ Continue("addColumnsAndRows")
             /\ UNCHANGED errorLog
        ELSE /\ Settle("addColumnsAndRowsToTabId", "fail",
                       CollaboratorError("addColumnsAndRowsToTabId"))
             /\ Caught("addColumnsAndRows",
                       addColumnsAndRowsCatch(CollaboratorError("addColumnsAndRowsToTabId")))
    /\ UNCHANGED <<headerIndicators, locals>>

\* a write helper is called with its part of the payload: the call of the
\* remote update it awaits inside its try block
CallWrite(op, payload) ==
    /\ Ready(op)
    /\ Invoke(op, payload)
    /\ UNCHANGED <<pc, errorLog, outcome, thrown, headerIndicators, locals>>

\* the remote update of a write helper settles; its catch block on rejection
SettleWrite(op, catch) ==
    /\ Awaited(op)
    /\ \E how \in Settlements(op) :
        IF how = "ok"
        THEN /\ Settle(op, "ok", op)
             /\ Continue(op)
             /\ UNCHANGED errorLog
        ELSE /\ Settle(op, "fail", CollaboratorError(op))
             /\ Caught(op, catch)
    /\ UNCHANGED <<headerIndicators, locals>>

\* lines 233 and 114-122
CallSendSummaryHeaders ==
    CallWrite("sendSummaryHeaders", fullSummaryPayload.headerPayload)

\* lines 115-125
SettleSendSummaryHeaders ==
    SettleWrite("sendSummaryHeaders",
                sendSummaryHeadersCatch(CollaboratorError("sendSummaryHeaders")))

\* lines 234 and 33-40
CallSendSummaryBody ==
    CallWrite("sendSummaryBody", fullSummaryPayload.bodyPayload)

\* lines 34-43
SettleSendSummaryBody ==
    SettleWrite("sendSummaryBody",
                sendSummaryBodyCatch(CollaboratorError("sendSummaryBody")))

\* line 235 is not commented out: sendSummaryGrid is called after the body
CallSummaryHeaderStyling_GridFirst ==
    /\ Ready("summaryHeaderStyling")
    /\ Invoke("sendSummaryGrid", fullSummaryPayload.summaryGridStyles)
    /\ UNCHANGED <<pc, errorLog, outcome, thrown, headerIndicators, locals>>

\* lines 236 and 201-208
CallSummaryHeaderStyling ==
    CallWrite("summaryHeaderStyling", fullSummaryPayload.summaryHeaderStylePayload)

\* lines 202-211
SettleSummaryHeaderStyling ==
    SettleWrite("summaryHeaderStyling",
                summaryHeaderStylingCatch(CollaboratorError("summaryHeaderStyling")))

Next ==
    \/ CallGetExistingTabTitlesInRange
    \/ SettleGetExistingTabTitlesInRange
    \/ CallGetLastMonthTabTitles
    \/ SettleGetLastMonthTabTitles
    \/ CallCreateNewTab
    \/ SettleCreateNewTab
    \/ CallConstructPayloadForCopyPaste
    \/ SettleConstructPayloadForCopyPaste
    \/ CallGetTabIdFromTitle
    \/ SettleGetTabIdFromTitle
    \/ CallAddColumnsAndRowsToTabId
    \/ SettleAddColumnsAndRowsToTabId
    \/ CallSendSummaryHeaders
    \/ SettleSendSummaryHeaders
    \/ CallSendSummaryBody
    \/ SettleSendSummaryBody
    \/ CallSummaryHeaderStyling
    \/ SettleSummaryHeaderStyling

Spec == Init /\ [][Next]_vars

\* The continuation of an await runs once the awaited call has settled, and
\* every collaborator call eventually settles.
FairSpec == Spec /\ WF_vars(Next)

(***************************************************************************)
(* Vocabulary of the properties.                                           *)
(***************************************************************************)
WriteSteps == {"sendSummaryHeaders", "sendSummaryBody", "summaryHeaderStyling"}

\* the positions of the trace where op was invoked
Calls(op) == {i \in DOMAIN trace : trace[i].op = op /\ trace[i].ev = "call"}

Invoked(op) == Calls(op) # {}

Failed(op) == \E i \in DOMAIN trace : trace[i].op = op /\ trace[i].ev = "fail"

Succeeded(op) == \E i \in DOMAIN trace : trace[i].op = op /\ trace[i].ev = "ok"

\* the call at position i of the trace has settled before position k
SettledBefore(i, k) ==
    \E j \in DOMAIN trace :
        /\ i < j /\ j < k
        /\ trace[j].op = trace[i].op
        /\ trace[j].ev \in {"ok", "fail"}

NoWriteInvoked == \A w \in WriteSteps : ~Invoked(w)

Finished == outcome # "running"

ProvisioningSucceeded == Succeeded("addColumnsAndRowsToTabId")

\* the write steps invoked so far, in the order of their calls
RECURSIVE WriteCallsOf(_)
WriteCallsOf(t) ==
    IF t = <<>> THEN <<>>
    ELSE LET rest == WriteCallsOf(SubSeq(t, 1, Len(t) - 1))
             e == t[Len(t)]
         IN  IF e.ev = "call" /\ e.op \in WriteSteps THEN Append(rest, e.op) ELSE rest

IsPrefix(s, t) == Len(s) <= Len(t) /\ s = SubSeq(t, 1, Len(s))

(***************************************************************************)
(* C1: whenever getTabIdFromTitle (resolveTabId) has failed, handleSummary *)
(* has raised the provisioning error and no write step (headers, body,     *)
(* header styling) has been invoked.                                       *)
(***************************************************************************)
C1_AbortBeforeWrite ==
    Failed("getTabIdFromTitle") =>
        /\ outcome = "raised"
        /\ thrown = ProvisioningError
        /\ NoWriteInvoked

C1_Witness ==
    /\ Failed("getTabIdFromTitle")
    /\ outcome = "raised"
    /\ Len(fullSummaryPayload.bodyPayload) > 0

(***************************************************************************)
(* C2: whenever addColumnsAndRowsToTabId (resizeTab) has failed, the       *)
(* failure has been raised out of handleSummary as the wrapping            *)
(* provisioning error, and no write step has been invoked.                 *)
(***************************************************************************)
C2_ResizeFailurePropagates ==
    Failed("addColumnsAndRowsToTabId") =>
        /\ outcome = "raised"
        /\ thrown = ProvisioningError
        /\ thrown # CollaboratorError("addColumnsAndRowsToTabId")
        /\ NoWriteInvoked

C2_Witness ==
    /\ Failed("addColumnsAndRowsToTabId")
    /\ Succeeded("getTabIdFromTitle")
    /\ outcome = "raised"

(***************************************************************************)
(* C3: once provisioning has succeeded and the header write has failed,    *)
(* the run has not raised, the body write is either the very next          *)
(* statement of the running pipeline or has been invoked, and it is never  *)
(* invoked more than once; in a finished run it was invoked exactly once.  *)
(***************************************************************************)
C3_BodyStillInvokedOnce ==
    (ProvisioningSucceeded /\ Failed("sendSummaryHeaders")) =>
        /\ outcome # "raised"
        /\ Cardinality(Calls("sendSummaryBody")) <= 1
        /\ ~Invoked("sendSummaryBody") =>
              (outcome = "running" /\ pc = "sendSummaryBody")
        /\ Finished => Cardinality(Calls("sendSummaryBody")) = 1

C3_Witness ==
    /\ ProvisioningSucceeded
    /\ Failed("sendSummaryHeaders")
    /\ Cardinality(Calls("sendSummaryBody")) = 1
    /\ Finished

(***************************************************************************)
(* C4: once provisioning has succeeded the run never raises, whatever the  *)
(* header, body and styling writes do, and when it has finished each of    *)
(* the three write steps has been invoked and has settled, and             *)
(* handleSummary has returned normally.                                    *)
(***************************************************************************)
C4_BestEffortWrites ==
    ProvisioningSucceeded =>
        /\ outcome # "raised"
        /\ Finished =>
              /\ outcome = "returned"
              /\ \A w \in WriteSteps :
                    /\ Invoked(w)
                    /\ Failed(w) \/ Succeeded(w)

C4_Witness ==
    /\ ProvisioningSucceeded
    /\ outcome = "returned"
    /\ \A w \in WriteSteps : Invoked(w) /\ Failed(w)

(***************************************************************************)
(* C5: the write steps are invoked in the order headers, body, header      *)
(* styling and in no other: the write calls made so far are a prefix of    *)
(* that order, and each write step is invoked only after every write step  *)
(* invoked before it has settled.                                          *)
(***************************************************************************)
C5_WriteOrder ==
    /\ IsPrefix(WriteCallsOf(trace),
                <<"sendSummaryHeaders", "sendSummaryBody", "summaryHeaderStyling">>)
    /\ \A w \in WriteSteps : \A k \in Calls(w) :
          \A i \in 1..(k - 1) :
              (trace[i].ev = "call" /\ trace[i].op \in WriteSteps)
                  => SettledBefore(i, k)

C5_Witness ==
    /\ WriteCallsOf(trace) =
          <<"sendSummaryHeaders", "sendSummaryBody", "summaryHeaderStyling">>
    /\ "summaryHeaderStyling" \in inFlight

(***************************************************************************)
(* C6: when the body payload is empty, the pipeline raises before          *)
(* provisioning: neither getTabIdFromTitle nor addColumnsAndRowsToTabId    *)
(* nor any write step is ever invoked.  (The code computes Math.max() of   *)
(* no arguments, -Infinity, without throwing, and goes on to provision.)   *)
(***************************************************************************)
EmptyBodyPayload ==
    /\ Succeeded("constructPayloadForCopyPaste")
    /\ fullSummaryPayload.bodyPayload = <<>>

C6_EmptyBodyAbortsBeforeProvisioning ==
    EmptyBodyPayload =>
        /\ ~Invoked("getTabIdFromTitle")
        /\ ~Invoked("addColumnsAndRowsToTabId")
        /\ NoWriteInvoked
        /\ Finished => outcome = "raised"

(***************************************************************************)
(* C7, as stated: whenever handleSummary has raised, the failure           *)
(* originated in the provisioning stage (tab lookup or resize), and no     *)
(* other stage, createNewTab included, made it raise.                      *)
(***************************************************************************)
ProvisioningFailed ==
    Failed("getTabIdFromTitle") \/ Failed("addColumnsAndRowsToTabId")

FailedWrites == {w \in WriteSteps : Failed(w)}

C8_OneLogPerFailedWrite ==
    ProvisioningSucceeded =>
        /\ Len(errorLog) = Cardinality(FailedWrites)
        /\ ( /\ Finished
             /\ Failed("sendSummaryHeaders")
             /\ Succeeded("sendSummaryBody")
             /\ Succeeded("summaryHeaderStyling") )
           => (Len(errorLog) = 1 /\ outcome = "returned")

C8_Witness ==
    /\ ProvisioningSucceeded
    /\ Finished
    /\ Failed("sendSummaryHeaders")
    /\ Succeeded("sendSummaryBody")
    /\ Succeeded("summaryHeaderStyling")
    /\ Len(errorLog) = 1

(***************************************************************************)
(* C9: whenever addColumnsAndRowsToTabId is in flight for a non-empty body *)
(* payload, the row count it was passed is the maximum endRowIndex of the  *)
(* payload's entries (one of them, and no entry exceeds it), and computing *)
(* the row count from any permutation of the entries gives the same.       *)
(***************************************************************************)
\* the argument of the (single) call of addColumnsAndRowsToTabId
ResizeArg == trace[CHOOSE i \in Calls("addColumnsAndRowsToTabId") : TRUE].arg

Permuted(payload, p) == [i \in DOMAIN payload |-> payload[p[i]]]

C9_RowsAreMaxEndRowIndex ==
    ("addColumnsAndRowsToTabId" \in inFlight
        /\ fullSummaryPayload.bodyPayload # <<>>) =>
        LET body == fullSummaryPayload.bodyPayload
            ends == {body[i].copyPaste.destination.endRowIndex : i \in DOMAIN body}
        IN  /\ ResizeArg.rows \in ends
            /\ \A e \in ends : e <= ResizeArg.rows
            /\ \A p \in Permutations(DOMAIN body) :
                  RowsNeeded(Permuted(body, p)) = ResizeArg.rows

\* three entries whose maximum is neither the first nor the last
C9_Witness ==
    /\ "addColumnsAndRowsToTabId" \in inFlight
    /\ Len(fullSummaryPayload.bodyPayload) = 3
    /\ EndRowIndexes(fullSummaryPayload.bodyPayload) = <<1, 2, 0>>
    /\ ResizeArg.rows = 2

(***************************************************************************)
(* C10: whenever addColumnsAndRowsToTabId is in flight, the column count   *)
(* it was passed is the number of (prior-period title, header indicator)   *)
(* pairs, len(titles) * len(indicators), zero lengths included.            *)
(***************************************************************************)
C10_ColumnsAreTitlesTimesIndicators ==
    "addColumnsAndRowsToTabId" \in inFlight =>
        /\ ResizeArg.columns =
              Cardinality((DOMAIN lastMonthSheetTitles) \X (DOMAIN headerIndicators))
        /\ (lastMonthSheetTitles = <<>> \/ headerIndicators = <<>>)
              => ResizeArg.columns = 0
        /\ (Len(lastMonthSheetTitles) = 2 /\ Len(headerIndicators) = 2)
              => ResizeArg.columns = 4

\* no prior-period title at all, and two indicators
C10_Witness ==
    /\ "addColumnsAndRowsToTabId" \in inFlight
    /\ lastMonthSheetTitles = <<>>
    /\ Len(headerIndicators) = 2
    /\ ResizeArg.columns = 0

(***************************************************************************)
(* The remote operations, in the order handleSummary reaches them.         *)
(***************************************************************************)
RemoteOrder ==
    <<"getExistingTabTitlesInRange", "getLastMonthTabTitles", "createNewTab",
      "constructPayloadForCopyPaste", "getTabIdFromTitle",
      "addColumnsAndRowsToTabId", "sendSummaryHeaders", "sendSummaryBody",
      "summaryHeaderStyling">>

RemoteOps == {RemoteOrder[i] : i \in DOMAIN RemoteOrder}

\* the operations invoked so far, in the order of their calls
RECURSIVE CallsOf(_)
CallsOf(t) ==
    IF t = <<>> THEN <<>>
    ELSE LET rest == CallsOf(SubSeq(t, 1, Len(t) - 1))
             e == t[Len(t)]
         IN  IF e.ev = "call" THEN Append(rest, e.op) ELSE rest

Settlings(op) ==
    {i \in DOMAIN trace : trace[i].op = op /\ trace[i].ev \in {"ok", "fail"}}

(***************************************************************************)
(* C11: no retries: in a run, each remote operation (tab listing, prior-   *)
(* period selection, createNewTab, payload building, getTabIdFromTitle,    *)
(* addColumnsAndRowsToTabId and the three writes) is invoked at most once  *)
(* and settles at most once, whether it succeeds or fails.                 *)
(***************************************************************************)
C11_NoRetries ==
    \A i \in DOMAIN trace :
        /\ Cardinality(Calls(trace[i].op)) <= 1
        /\ Cardinality(Settlings(trace[i].op)) <= 1

C11_Witness ==
    /\ outcome = "returned"
    /\ FailedWrites = WriteSteps
    /\ \A op \in RemoteOps : Cardinality(Calls(op)) = 1

(***************************************************************************)
(* C12: the grid-styling write (sendSummaryGrid) is never invoked, in a    *)
(* successful or in a failing run: every operation invoked is one of the   *)
(* nine others, and the call that follows the body write is the            *)
(* header-styling write.                                                   *)
(***************************************************************************)
C12_GridStylingDisabled ==
    /\ ~Invoked("sendSummaryGrid")
    /\ "sendSummaryGrid" \notin inFlight
    /\ \A i \in DOMAIN trace : trace[i].op \in RemoteOps
    /\ \A i \in Calls("sendSummaryBody") : \A k \in DOMAIN trace :
          (k > i /\ trace[k].ev = "call") => trace[k].op = "summaryHeaderStyling"

C12_Witness ==
    /\ outcome = "returned"
    /\ Succeeded("sendSummaryBody")
    /\ Succeeded("summaryHeaderStyling")
    /\ ~Invoked("sendSummaryGrid")

(***************************************************************************)
(* C13: strict sequentiality: at most one remote operation is in flight at *)
(* any time, and no operation is invoked before the one invoked before it  *)
(* has settled: calls and settlements alternate in the trace, each         *)
(* settlement being that of the call just before it.                       *)
(***************************************************************************)
C13_StrictlySequential ==
    /\ Cardinality(inFlight) <= 1
    /\ \A i \in DOMAIN trace :
          IF i % 2 = 1
          THEN trace[i].ev = "call"
          ELSE /\ trace[i].ev \in {"ok", "fail"}
               /\ trace[i].op = trace[i - 1].op
    /\ inFlight = IF Len(trace) % 2 = 1 THEN {trace[Len(trace)].op} ELSE {}

C13_Witness ==
    /\ inFlight = {"summaryHeaderStyling"}
    /\ Len(trace) = 2 * Len(RemoteOrder) - 1

(***************************************************************************)
(* C14: stage ordering: the operations are invoked only in the order tab   *)
(* listing, prior-period selection, createNewTab, payload building,        *)
(* getTabIdFromTitle, addColumnsAndRowsToTabId, then the writes; the tab   *)
(* has been created before its payload is built and its id resolved, the   *)
(* dimensions are planned after the payload is built, and the tab has been *)
(* resized before any write is invoked.                                    *)
(***************************************************************************)
C14_StageOrder ==
    /\ IsPrefix(CallsOf(trace), RemoteOrder)
    /\ Invoked("constructPayloadForCopyPaste") => Succeeded("createNewTab")
    /\ Invoked("getTabIdFromTitle") =>
          /\ Succeeded("createNewTab")
          /\ Succeeded("constructPayloadForCopyPaste")
    /\ (\E w \in WriteSteps : Invoked(w)) => Succeeded("addColumnsAndRowsToTabId")

C14_Witness ==
    /\ CallsOf(trace) = RemoteOrder
    /\ outcome = "returned"

(***************************************************************************)
(* C15: the write payload is read-only after construction: from the moment *)
(* constructPayloadForCopyPaste has resolved, fullSummaryPayload is the    *)
(* value it resolved with, and each write step that has been invoked was   *)
(* passed exactly its part of that value, whatever ran or failed before.   *)
(***************************************************************************)
\* what constructPayloadForCopyPaste resolved with
BuiltPayload ==
    trace[CHOOSE i \in DOMAIN trace :
            trace[i].op = "constructPayloadForCopyPaste" /\ trace[i].ev = "ok"].arg

C15_PayloadReadOnly ==
    Succeeded("constructPayloadForCopyPaste") =>
        /\ fullSummaryPayload = BuiltPayload
        /\ \A i \in Calls("sendSummaryHeaders") :
              trace[i].arg = BuiltPayload.headerPayload
        /\ \A i \in Calls("sendSummaryBody") :
              trace[i].arg = BuiltPayload.bodyPayload
        /\ \A i \in Calls("summaryHeaderStyling") :
              trace[i].arg = BuiltPayload.summaryHeaderStylePayload

\* all three writes were sent, after a failed header write, for a body whose
\* entries are not in ascending or descending order
C15_Witness ==
    /\ outcome = "returned"
    /\ Failed("sendSummaryHeaders")
    /\ EndRowIndexes(BuiltPayload.bodyPayload) = <<1, 2, 0>>
    /\ \A i \in Calls("sendSummaryBody") : trace[i].arg = BuiltPayload.bodyPayload

(***************************************************************************)
(* C16: single destination per run: the title that createSummaryTitle gave *)
(* is the one passed to createNewTab, to constructPayloadForCopyPaste and  *)
(* to getTabIdFromTitle; the tab id passed to addColumnsAndRowsToTabId is  *)
(* the id that lookup resolved to; and the tab is created, looked up and   *)
(* resized at most once.                                                   *)
(***************************************************************************)
C16_SingleDestination ==
    /\ \A i \in Calls("createNewTab") :
          /\ summaryPageTitle \in SummaryTitles
          /\ trace[i].arg = summaryPageTitle
    /\ \A i \in Calls("constructPayloadForCopyPaste") :
          trace[i].arg.title = summaryPageTitle
    /\ \A i \in Calls("getTabIdFromTitle") :
          trace[i].arg = summaryPageTitle
    /\ \A i \in Calls("addColumnsAndRowsToTabId") :
          /\ i > 1
          /\ trace[i - 1].op = "getTabIdFromTitle"
          /\ trace[i - 1].ev = "ok"
          /\ trace[i].arg.tabId = trace[i - 1].arg
    /\ \A op \in {"createNewTab", "getTabIdFromTitle", "addColumnsAndRowsToTabId"} :
          Cardinality(Calls(op)) <= 1

C16_Witness ==
    /\ Succeeded("addColumnsAndRowsToTabId")
    /\ summaryPageTitle = "Summary Feb"
    /\ ResizeArg.tabId = 102

(***************************************************************************)
(* C17: addColumnsAndRowsToTabId is invoked only after getTabIdFromTitle   *)
(* has succeeded, never after it has failed, and once the lookup has       *)
(* succeeded the resize is the next statement or has been invoked,         *)
(* whatever the planned size (zero columns and -Infinity rows included),   *)
(* with exactly the planned columns and rows.                              *)
(***************************************************************************)
C17_ResizeFollowsLookup ==
    /\ Invoked("addColumnsAndRowsToTabId") => Succeeded("getTabIdFromTitle")
    /\ Failed("getTabIdFromTitle") => ~Invoked("addColumnsAndRowsToTabId")
    /\ Succeeded("getTabIdFromTitle") =>
          \/ Ready("addColumnsAndRowsToTabId")
          \/ /\ Invoked("addColumnsAndRowsToTabId")
             /\ ResizeArg.columns = numberOfColumnsNeeded
             /\ ResizeArg.rows = numberOfRowsNeeded
             /\ ResizeArg.columns =
                   Len(lastMonthSheetTitles) * Len(headerIndicators)
             /\ ResizeArg.rows =
                   MathMax(EndRowIndexes(fullSummaryPayload.bodyPayload))

\* the resize is requested although nothing is needed
C17_Witness ==
    /\ "addColumnsAndRowsToTabId" \in inFlight
    /\ ResizeArg.columns = 0
    /\ ResizeArg.rows = NegInfinity

(***************************************************************************)
(* C18: whenever createNewTab has failed, handleSummary has raised that    *)
(* failure, unchanged and unlogged, and nothing downstream has been        *)
(* invoked: neither the payload building, nor the tab lookup, nor the      *)
(* resize, nor any write step.                                             *)
(***************************************************************************)
C18_CreateTabFailureStopsRun ==
    Failed("createNewTab") =>
        /\ outcome = "raised"
        /\ thrown = CollaboratorError("createNewTab")
        /\ errorLog = <<>>
        /\ ~Invoked("constructPayloadForCopyPaste")
        /\ ~Invoked("getTabIdFromTitle")
        /\ ~Invoked("addColumnsAndRowsToTabId")
        /\ NoWriteInvoked

C18_Witness ==
    /\ Failed("createNewTab")
    /\ pc = "done"
    /\ CallsOf(trace) =
          <<"getExistingTabTitlesInRange", "getLastMonthTabTitles", "createNewTab">>

(***************************************************************************)
(* C19: whenever the tab lookup or the resize has failed inside            *)
(* addColumnsAndRows, exactly one error has been logged (the catch block's *)
(* message) and handleSummary has raised the one wrapping error, which is  *)
(* the same for both causes and is neither TabNotFoundError nor            *)
(* ResizeError.                                                            *)
(***************************************************************************)
C19_OneWrappedError ==
    ProvisioningFailed =>
        /\ errorLog = <<"Error in adding columns and rows:">>
        /\ outcome = "raised"
        /\ thrown = "Unable to add columns and rows to the sheet."
        /\ thrown \notin {CollaboratorError("getTabIdFromTitle"),
                          CollaboratorError("addColumnsAndRowsToTabId")}

C19_Witness ==
    /\ Failed("addColumnsAndRowsToTabId")
    /\ Len(errorLog) = 1
    /\ thrown = ProvisioningError

(***************************************************************************)
(* C20: termination: provided every call eventually settles, every run of  *)
(* handleSummary eventually finishes; a finished run has nothing in flight *)
(* and either returned after the styling write settled or raised before    *)
(* any write was invoked; and a run never takes more steps than one call   *)
(* and one settlement per remote operation (it does not loop).             *)
(***************************************************************************)
C20_Terminates ==
    /\ <>Finished
    /\ [](Finished =>
            /\ inFlight = {}
            /\ \/ outcome = "returned" /\ Settlings("summaryHeaderStyling") # {}
               \/ outcome = "raised" /\ NoWriteInvoked)
    /\ [](Len(trace) <= 2 * Len(RemoteOrder))

C20_Witness ==
    /\ outcome = "returned"
    /\ inFlight = {}
    /\ Len(trace) = 2 * Len(RemoteOrder)
    /\ Failed("summaryHeaderStyling")

====
